---- MODULE Spec2Model ----
(***************************************************************************)
(* Model of app.py, the Streamlit sales dashboard.                         *)
(*                                                                         *)
(* Streamlit runs the script top to bottom once at start-up and once more  *)
(* after every widget interaction.  One action of this model is one such   *)
(* run of the whole script: load_data(), the sidebar widgets, the boolean  *)
(* filter, and every groupby of the six tabs, up to the line that raises   *)
(* when one does.                                                          *)
(*                                                                         *)
(* Dates are day numbers of the year 2024 (1 = 2024-01-01, a Monday).      *)
(* Money is kept in whole units, so sums are exact.                        *)
(***************************************************************************)
EXTENDS Integers, Sequences, FiniteSets, TLC

VARIABLES
    cache,               \* st.cache_data entry of load_data(): <<>> or <<frame>>
    df,                  \* the module-level df of the last script run
    pandas_observed,     \* default of groupby(observed=...) in the installed pandas
    date_range,          \* <<start, end>> of the date_input widget
    selected_genders,
    selected_products,
    selected_locations,
    selected_channel,
    selected_payment,
    feedback_range,      \* <<feedback_min, feedback_max>> of the slider
    filtered_df,
    metrics,             \* the four st.metric values of tab 1
    monthly_sales,
    sales_by_variant,
    day_sales,
    month_units,
    pivot,
    age_sales,
    sales_by_channel_month,
    sales_pay,
    raised_at,           \* 0, or the line of the script whose call raised
    interactions         \* widget interactions so far

widgets == <<date_range, selected_genders, selected_products, selected_locations,
             selected_channel, selected_payment, feedback_range>>

results == <<filtered_df, metrics, monthly_sales, sales_by_variant, day_sales,
             month_units, pivot, age_sales, sales_by_channel_month, sales_pay,
             raised_at>>

vars == <<cache, df, pandas_observed, widgets, results, interactions>>

(***************************************************************************)
(* Bounds of the model.                                                    *)
(***************************************************************************)
MaxRows == 2
MaxInteractions == 1

(***************************************************************************)
(* Values.  A missing categorical value (NaN in an object column) is NA; a *)
(* float that may be NaN is a record.                                      *)
(***************************************************************************)
NA == "NaN"
NaN == [nan |-> TRUE, v |-> 0]
Num(x) == [nan |-> FALSE, v |-> x]

BaseCols == {"Date", "CustomerID", "Gender", "Age", "ProductVariant", "Location",
             "Channel", "PaymentType", "UnitsPurchased", "TotalSaleValue",
             "FeedbackScore"}

Row(d, c, g, a, p, l, ch, pay, u, v, f) ==
    [Date |-> d, CustomerID |-> c, Gender |-> g, Age |-> a, ProductVariant |-> p,
     Location |-> l, Channel |-> ch, PaymentType |-> pay, UnitsPurchased |-> u,
     TotalSaleValue |-> v, FeedbackScore |-> f]

\* Rows that "Clean Data.csv" may hold.
CsvRows ==
    { Row(5,  7, "Male",   18,  "A", "Delhi",  "Online", "Card", 1, 10, 3),
      Row(6,  7, "Female", 60,  "B", "Mumbai", "Retail", "Cash", 2, 10, 4),
      Row(32, 9, NA,       17,  "A", "Delhi",  "Online", "Card", 1, 5,  5),
      Row(92, 9, "Male",   100, "B", "Mumbai", "Retail", "Cash", 3, 30, 3) }

\* The files read_csv may find: one to MaxRows rows, in any order, repeats allowed.
CsvFiles == UNION { [1..n -> CsvRows] : n \in 1..MaxRows }

\* A DataFrame: its rows in order, their index labels, its columns, and
\* whether it shares its data with the frame it was taken from.
Frame(rows, index, cols, view) ==
    [rows |-> rows, index |-> index, cols |-> cols, view |-> view]

\* pd.read_csv("Clean Data.csv", parse_dates=['Date'])
read_csv(file) == Frame(file, [i \in DOMAIN file |-> i], BaseCols, FALSE)

(***************************************************************************)
(* Series helpers.                                                         *)
(***************************************************************************)
Column(rows, col) == [i \in DOMAIN rows |-> rows[i][col]]

Range(s) == {s[i] : i \in DOMAIN s}

RECURSIVE SumSeq(_)
SumSeq(s) == IF s = <<>> THEN 0 ELSE Head(s) + SumSeq(Tail(s))

\* Duplicates counted once.
RECURSIVE SumSet(_)
SumSet(S) == IF S = {} THEN 0 ELSE LET x == CHOOSE y \in S : TRUE IN x + SumSet(S \ {x})

SumDistinct(s) == SumSet(Range(s))

\* Series.sum(): the empty sum is 0.
Sum(s) == SumSeq(s)

\* Series.min() / Series.max() of a non-empty integer column.
Min(S) == CHOOSE x \in S : \A y \in S : x <= y
Max(S) == CHOOSE x \in S : \A y \in S : y <= x

\* Series.mean(): NaN on an empty series, else sum / count kept as a fraction.
Mean(s) == IF s = <<>> THEN [nan |-> TRUE, num |-> 0, den |-> 1]
           ELSE [nan |-> FALSE, num |-> SumSeq(s), den |-> Len(s)]

\* Series.nunique()
NUnique(s) == Cardinality(Range(s))

(***************************************************************************)
(* Strings are ordered as Python orders them: by code point, left to right.*)
(***************************************************************************)
Ascii ==
  "Monday"    :> <<77, 111, 110, 100, 97, 121>> @@
  "Tuesday"   :> <<84, 117, 101, 115, 100, 97, 121>> @@
  "Wednesday" :> <<87, 101, 100, 110, 101, 115, 100, 97, 121>> @@
  "Thursday"  :> <<84, 104, 117, 114, 115, 100, 97, 121>> @@
  "Friday"    :> <<70, 114, 105, 100, 97, 121>> @@
  "Saturday"  :> <<83, 97, 116, 117, 114, 100, 97, 121>> @@
  "Sunday"    :> <<83, 117, 110, 100, 97, 121>> @@
  "Jan"       :> <<74, 97, 110>> @@
  "Feb"       :> <<70, 101, 98>> @@
  "Mar"       :> <<77, 97, 114>> @@
  "Apr"       :> <<65, 112, 114>> @@
  "May"       :> <<77, 97, 121>> @@
  "Jun"       :> <<74, 117, 110>> @@
  "Jul"       :> <<74, 117, 108>> @@
  "Aug"       :> <<65, 117, 103>> @@
  "Sep"       :> <<83, 101, 112>> @@
  "Oct"       :> <<79, 99, 116>> @@
  "Nov"       :> <<78, 111, 118>> @@
  "Dec"       :> <<68, 101, 99>> @@
  "A"         :> <<65>> @@
  "B"         :> <<66>> @@
  "Delhi"     :> <<68, 101, 108, 104, 105>> @@
  "Mumbai"    :> <<77, 117, 109, 98, 97, 105>> @@
  "Online"    :> <<79, 110, 108, 105, 110, 101>> @@
  "Retail"    :> <<82, 101, 116, 97, 105, 108>> @@
  "Card"      :> <<67, 97, 114, 100>> @@
  "Cash"      :> <<67, 97, 115, 104>> @@
  "Male"      :> <<77, 97, 108, 101>> @@
  "Female"    :> <<70, 101, 109, 97, 108, 101>>

RECURSIVE LexLess(_, _)
LexLess(a, b) ==
    IF b = <<>> THEN FALSE
    ELSE IF a = <<>> THEN TRUE
    ELSE IF Head(a) # Head(b) THEN Head(a) < Head(b)
    ELSE LexLess(Tail(a), Tail(b))

StrLess(a, b) == LexLess(Ascii[a], Ascii[b])

\* Keys of a two-column groupby: ordered by the first column, then the second.
PairLess(a, b) == StrLess(a[1], b[1]) \/ (a[1] = b[1] /\ StrLess(a[2], b[2]))

RECURSIVE SortStr(_)
SortStr(S) ==
    IF S = {} THEN <<>>
    ELSE LET m == CHOOSE x \in S : \A y \in S \ {x} : StrLess(x, y)
         IN <<m>> \o SortStr(S \ {m})

RECURSIVE SortInt(_)
SortInt(S) ==
    IF S = {} THEN <<>>
    ELSE LET m == CHOOSE x \in S : \A y \in S : x <= y
         IN <<m>> \o SortInt(S \ {m})

RECURSIVE SortPair(_)
SortPair(S) ==
    IF S = {} THEN <<>>
    ELSE LET m == CHOOSE x \in S : \A y \in S \ {x} : PairLess(x, y)
         IN <<m>> \o SortPair(S \ {m})

(***************************************************************************)
(* Calendar: the .dt accessors used by the script.                         *)
(***************************************************************************)
day_order == <<"Monday", "Tuesday", "Wednesday", "Thursday", "Friday", "Saturday",
               "Sunday">>

month_order == <<"Jan", "Feb", "Mar", "Apr", "May", "Jun", "Jul", "Aug", "Sep",
                 "Oct", "Nov", "Dec">>

\* Days in each month of 2024.
MonthDays == <<31, 29, 31, 30, 31, 30, 31, 31, 30, 31, 30, 31>>

RECURSIVE MonthOf(_, _)
MonthOf(d, m) == IF d <= MonthDays[m] THEN m ELSE MonthOf(d - MonthDays[m], m + 1)

\* Series.dt.to_period('M'): the month number within 2024.
to_period_M(d) == MonthOf(d, 1)

\* Series.dt.strftime('%b')
strftime_b(d) == month_order[MonthOf(d, 1)]

\* Series.dt.day_name(); 2024-01-01 was a Monday.
day_name(d) == day_order[((d - 1) % 7) + 1]

(***************************************************************************)
(* Sidebar (lines 21-27): the options and the defaults of each widget.     *)
(***************************************************************************)
\* Series.unique()
unique(d, col) == Range(Column(d.rows, col))

\* Series.dropna().unique()
dropna_unique(d, col) == unique(d, col) \ {NA}

DefaultDateRange(d) == <<Min(unique(d, "Date")), Max(unique(d, "Date"))>>

DefaultFeedback(d) == <<Min(unique(d, "FeedbackScore")), Max(unique(d, "FeedbackScore"))>>

(***************************************************************************)
(* Filter (lines 30-40).                                                   *)
(***************************************************************************)
\* Series.isin(values)
isin_or_all(v, S) == S = {} \/ v \in S
isin(v, S) == v \in S

\* (df[col] >= lo) & (df[col] <= hi)
between_exclusive(v, lo, hi) == v >= lo /\ v < hi
between(v, lo, hi) == v >= lo /\ v <= hi

FilterMask(d, dr, g, p, l, c, pay, fb) ==
    [i \in DOMAIN d.rows |->
        /\ between(d.rows[i].Date, dr[1], dr[2])
        /\ isin(d.rows[i].Gender, g)
        /\ isin(d.rows[i].ProductVariant, p)
        /\ isin(d.rows[i].Location, l)
        /\ isin(d.rows[i].Channel, c)
        /\ isin(d.rows[i].PaymentType, pay)
        /\ between(d.rows[i].FeedbackScore, fb[1], fb[2])]

\* The positions a boolean mask keeps, in increasing order.
RECURSIVE Kept(_, _)
Kept(mask, i) ==
    IF i > Len(mask) THEN <<>>
    ELSE (IF mask[i] THEN <<i>> ELSE <<>>) \o Kept(mask, i + 1)

\* The rows of d a boolean mask keeps, with their index labels.
TakeRows(d, mask, view) ==
    LET keep == Kept(mask, 1)
    IN Frame([k \in DOMAIN keep |-> d.rows[keep[k]]],
             [k \in DOMAIN keep |-> d.index[keep[k]]], d.cols, view)

\* df[mask]: boolean indexing always copies; the result shares nothing with df.
BoolIndexAsView(d, mask) == TakeRows(d, mask, TRUE)
BoolIndex(d, mask) == TakeRows(d, mask, FALSE)

(***************************************************************************)
(* Column assignment  frame[col] = values  (lines 88, 97, 139, 167).       *)
(***************************************************************************)
WithField(r, col, v) == [c \in (DOMAIN r) \cup {col} |-> IF c = col THEN v ELSE r[c]]

\* The frame assigned to, after the assignment.
SetItem(f, col, vals) ==
    [f EXCEPT !.rows = [k \in DOMAIN f.rows |-> WithField(f.rows[k], col, vals[k])],
              !.cols = f.cols \cup {col}]

\* The frame f was taken from, after the assignment to f: untouched when f is
\* a copy, written through (NaN where f has no row) when f is a view.
Position(f, label) == CHOOSE k \in DOMAIN f.index : f.index[k] = label

ParentAfterSetItem(parent, f, col, vals) ==
    IF ~f.view THEN parent
    ELSE [parent EXCEPT
            !.rows = [i \in DOMAIN parent.rows |->
                        WithField(parent.rows[i], col,
                                  IF parent.index[i] \in Range(f.index)
                                  THEN vals[Position(f, parent.index[i])]
                                  ELSE NA)],
            !.cols = parent.cols \cup {col}]

\* DataFrame.copy()
copy(f) == [f EXCEPT !.view = FALSE]

(***************************************************************************)
(* groupby(...)[col].sum() and what the script does to its result.         *)
(***************************************************************************)
\* The values whose row has group key k, in row order.
Pick(keys, vals, k) ==
    LET at == Kept([i \in DOMAIN keys |-> keys[i] = k], 1)
    IN [j \in DOMAIN at |-> vals[at[j]]]

Entry(k, v) == [key |-> k, value |-> v]

Keys(series) == [j \in DOMAIN series |-> series[j].key]

\* One row per key of `order`, each the sum of its group.
SumPerKey(order, keys, vals) ==
    [j \in DOMAIN order |-> Entry(order[j], Sum(Pick(keys, vals, order[j])))]

\* groupby(sort=True, dropna=True) on a string key, an integer key, two string keys:
\* the groups are the keys present, NaN keys dropped, in sorted order.
groupby_sum(keys, vals) == SumPerKey(SortStr(Range(keys) \ {NA}), keys, vals)

groupby_sum_int(keys, vals) == SumPerKey(SortInt(Range(keys)), keys, vals)

groupby_sum_pair(keys, vals) == SumPerKey(SortPair(Range(keys)), keys, vals)

\* groupby on a Categorical key: the groups come in category order; with
\* observed=False every category has a group, with observed=True only those present.
groupby_sum_categorical(keys, vals, categories, observed) ==
    LET at == Kept([i \in DOMAIN categories |->
                        ~observed \/ categories[i] \in Range(keys)], 1)
    IN SumPerKey([j \in DOMAIN at |-> categories[at[j]]], keys, vals)

\* pd.Categorical(series.key, categories, ordered=True), then sort_values.
sort_as_categorical(series, categories) ==
    LET at == Kept([i \in DOMAIN categories |-> categories[i] \in Range(Keys(series))], 1)
    IN [j \in DOMAIN at |->
            series[CHOOSE n \in DOMAIN series : series[n].key = categories[at[j]]]]

\* Series.reindex(labels): a label the series lacks gets NaN.
reindex(series, labels) ==
    [j \in DOMAIN labels |->
        Entry(labels[j],
              IF labels[j] \in Range(Keys(series))
              THEN Num(series[CHOOSE n \in DOMAIN series : series[n].key = labels[j]].value)
              ELSE NaN)]

\* pd.pivot_table(index, columns, values, aggfunc='sum'): sorted index and
\* columns, NaN in a cell no row falls in.
pivot_table(idx, cols, vals) ==
    LET pairs == [i \in DOMAIN idx |-> <<idx[i], cols[i]>>]
    IN [index   |-> SortStr(Range(idx)),
        columns |-> SortStr(Range(cols)),
        cell    |-> [c \in Range(idx) \X Range(cols) |->
                        IF c \in Range(pairs) THEN Num(Sum(Pick(pairs, vals, c)))
                        ELSE NaN]]

\* sns.heatmap(data): np.nanmin of a zero-size array raises ValueError.
heatmap_raises(p) == p.index = <<>> \/ p.columns = <<>>

(***************************************************************************)
(* Age buckets (lines 137-139).                                            *)
(***************************************************************************)
bins == <<0, 18, 25, 35, 45, 60, 100>>
labels == <<"<18", "18-25", "26-35", "36-45", "46-60", "60+">>

\* pd.cut(x, bins, labels, right=False): bins[i] <= x < bins[i+1], else NaN.
cut(x, b, lab) ==
    IF \E i \in DOMAIN lab : b[i] <= x /\ x < b[i + 1]
    THEN lab[CHOOSE i \in DOMAIN lab : b[i] <= x /\ x < b[i + 1]]
    ELSE NA

(***************************************************************************)
(* One run of the script below the sidebar (lines 30-218) on the frame d0  *)
(* that load_data() returned, with the widget values given.                *)
(***************************************************************************)
sale(f) == Column(f.rows, "TotalSaleValue")

\* Lines 57-60.
KeyMetrics(f) ==
    [total_sales      |-> Sum(sale(f)),
     total_units      |-> Sum(Column(f.rows, "UnitsPurchased")),
     unique_customers |-> NUnique(Column(f.rows, "CustomerID")),
     avg_feedback     |-> Mean(Column(f.rows, "FeedbackScore"))]

\* Line 63.
MonthlySales(f) ==
    groupby_sum_int([k \in DOMAIN f.rows |-> to_period_M(f.rows[k].Date)], sale(f))

\* Line 69.
SalesByVariant(f) == groupby_sum(Column(f.rows, "ProductVariant"), sale(f))

\* Line 88, right-hand side.
DayOfWeekColumn(f) == [k \in DOMAIN f.rows |-> day_name(f.rows[k].Date)]

\* Lines 89-92.
DaySales(f) ==
    sort_as_categorical(groupby_sum(Column(f.rows, "DayOfWeek"), sale(f)), day_order)

\* Lines 97 and 167, right-hand side.
MonthColumn(f) == [k \in DOMAIN f.rows |-> strftime_b(f.rows[k].Date)]

\* Lines 98-99.
MonthUnits(f) ==
    reindex(groupby_sum(Column(f.rows, "Month"), Column(f.rows, "UnitsPurchased")),
            month_order)

\* Line 104.
Pivot(f) ==
    pivot_table(Column(f.rows, "DayOfWeek"), Column(f.rows, "ProductVariant"), sale(f))

\* Line 139, right-hand side.
AgeGroupColumn(f) == [k \in DOMAIN f.rows |-> cut(f.rows[k].Age, bins, labels)]

\* Line 140.
AgeSales(f, observed) ==
    groupby_sum_categorical(Column(f.rows, "AgeGroup"), sale(f), labels, observed)

\* Lines 166-168.
SalesByChannelMonth(f) ==
    LET channel_month == SetItem(copy(f), "Month", MonthColumn(f))
    IN groupby_sum_pair([k \in DOMAIN channel_month.rows |->
                            <<channel_month.rows[k].Channel, channel_month.rows[k].Month>>],
                        sale(channel_month))

\* Line 182.
SalesPay(f) ==
    groupby_sum_pair([k \in DOMAIN f.rows |-> <<f.rows[k].Channel, f.rows[k].PaymentType>>],
                     sale(f))

\* The statements of the script in order, each handing the parent frame d, the
\* filtered frame f and the aggregates so far (out) to the statement after it.

\* Lines 166-218: nothing below line 140 assigns to filtered_df or raises.
Tab5(d, f, out) ==
    out @@ [df |-> d, filtered_df |-> f,
            sales_by_channel_month |-> SalesByChannelMonth(f),
            sales_pay |-> SalesPay(f),
            raised_at |-> 0]

\* Line 140.
GroupAgeGroup(d, f, out, observed) ==
    Tab5(d, f, out @@ [age_sales |-> AgeSales(f, observed)])

\* Line 139.
AssignAgeGroup(d, f, out, observed) ==
    GroupAgeGroup(ParentAfterSetItem(d, f, "AgeGroup", AgeGroupColumn(f)),
                  SetItem(f, "AgeGroup", AgeGroupColumn(f)), out, observed)

\* Line 106: when sns.heatmap raises, Streamlit shows the exception and the
\* run ends; the names assigned below that line stay unset.
Heatmap(d, f, out, observed) ==
    IF heatmap_raises(out.pivot)
    THEN out @@ [df |-> d, filtered_df |-> f, age_sales |-> <<>>,
                 sales_by_channel_month |-> <<>>, sales_pay |-> <<>>,
                 raised_at |-> 106]
    ELSE AssignAgeGroup(d, f, out, observed)

\* Lines 98-104.
GroupMonth(d, f, out, observed) ==
    Heatmap(d, f, out @@ [month_units |-> MonthUnits(f), pivot |-> Pivot(f)], observed)

\* Line 97.
AssignMonth(d, f, out, observed) ==
    GroupMonth(ParentAfterSetItem(d, f, "Month", MonthColumn(f)),
               SetItem(f, "Month", MonthColumn(f)), out, observed)

\* Lines 89-92.
GroupDayOfWeek(d, f, out, observed) ==
    AssignMonth(d, f, out @@ [day_sales |-> DaySales(f)], observed)

\* Line 88.
AssignDayOfWeek(d, f, out, observed) ==
    GroupDayOfWeek(ParentAfterSetItem(d, f, "DayOfWeek", DayOfWeekColumn(f)),
                   SetItem(f, "DayOfWeek", DayOfWeekColumn(f)), out, observed)

\* Lines 51-85.
Tab1(d, f, observed) ==
    AssignDayOfWeek(d, f, [metrics          |-> KeyMetrics(f),
                           monthly_sales    |-> MonthlySales(f),
                           sales_by_variant |-> SalesByVariant(f)], observed)

\* Lines 30-40, then the tabs.
Script(d0, dr, g, p, l, c, pay, fb, observed) ==
    Tab1(d0, BoolIndex(d0, FilterMask(d0, dr, g, p, l, c, pay, fb)), observed)

(***************************************************************************)
(* State machine.                                                          *)
(***************************************************************************)
NoFrame == Frame(<<>>, <<>>, {}, FALSE)

Init ==
    /\ cache = <<>>
    /\ df = NoFrame
    /\ pandas_observed \in BOOLEAN
    /\ date_range = <<>>
    /\ selected_genders = {}
    /\ selected_products = {}
    /\ selected_locations = {}
    /\ selected_channel = {}
    /\ selected_payment = {}
    /\ feedback_range = <<>>
    /\ filtered_df = NoFrame
    /\ metrics = KeyMetrics(NoFrame)
    /\ monthly_sales = <<>>
    /\ sales_by_variant = <<>>
    /\ day_sales = <<>>
    /\ month_units = <<>>
    /\ pivot = [index |-> <<>>, columns |-> <<>>, cell |-> <<>>]
    /\ age_sales = <<>>
    /\ sales_by_channel_month = <<>>
    /\ sales_pay = <<>>
    /\ raised_at = 0
    /\ interactions = 0

loaded == cache # <<>>

\* load_data() on a cache hit: a copy of the cached frame.
load_data == copy(cache[1])

\* The script from line 17 on, with the widgets holding the primed values.
Run(d0) ==
    LET r == Script(d0, date_range', selected_genders', selected_products',
                    selected_locations', selected_channel', selected_payment',
                    feedback_range', pandas_observed)
    IN /\ df' = r.df
       /\ filtered_df' = r.filtered_df
       /\ metrics' = r.metrics
       /\ monthly_sales' = r.monthly_sales
       /\ sales_by_variant' = r.sales_by_variant
       /\ day_sales' = r.day_sales
       /\ month_units' = r.month_units
       /\ pivot' = r.pivot
       /\ age_sales' = r.age_sales
       /\ sales_by_channel_month' = r.sales_by_channel_month
       /\ sales_pay' = r.sales_pay
       /\ raised_at' = r.raised_at

\* The first run of a process: load_data() misses the cache and reads the
\* file, and every widget takes its default.
FirstRun ==
    /\ ~loaded
    /\ \E file \in CsvFiles :
          LET d == read_csv(file)
          IN /\ cache' = <<d>>
             /\ date_range' = DefaultDateRange(d)
             /\ selected_genders' = dropna_unique(d, "Gender")
             /\ selected_products' = unique(d, "ProductVariant")
             /\ selected_locations' = unique(d, "Location")
             /\ selected_channel' = unique(d, "Channel")
             /\ selected_payment' = unique(d, "PaymentType")
             /\ feedback_range' = DefaultFeedback(d)
             /\ Run(d)
    /\ UNCHANGED <<pandas_observed, interactions>>

Toggle(selection, x) == IF x \in selection THEN selection \ {x} ELSE selection \cup {x}

\* A widget interaction: the widget takes its new value, the others keep
\* theirs, and the script runs again from the top, load_data() now hitting
\* the cache.
CanInteract == loaded /\ interactions < MaxInteractions

Rerun ==
    /\ interactions' = interactions + 1
    /\ Run(load_data)
    /\ UNCHANGED <<cache, pandas_observed>>

SetDateRange ==
    /\ CanInteract
    /\ \E a, b \in unique(load_data, "Date") :
          /\ a <= b
          /\ date_range' = <<a, b>>
    /\ UNCHANGED <<selected_genders, selected_products, selected_locations,
                   selected_channel, selected_payment, feedback_range>>
    /\ Rerun

SelectGender ==
    /\ CanInteract
    /\ \E x \in dropna_unique(load_data, "Gender") :
          selected_genders' = Toggle(selected_genders, x)
    /\ UNCHANGED <<date_range, selected_products, selected_locations,
                   selected_channel, selected_payment, feedback_range>>
    /\ Rerun

SelectProduct ==
    /\ CanInteract
    /\ \E x \in unique(load_data, "ProductVariant") :
          selected_products' = Toggle(selected_products, x)
    /\ UNCHANGED <<date_range, selected_genders, selected_locations,
                   selected_channel, selected_payment, feedback_range>>
    /\ Rerun

SelectLocation ==
    /\ CanInteract
    /\ \E x \in unique(load_data, "Location") :
          selected_locations' = Toggle(selected_locations, x)
    /\ UNCHANGED <<date_range, selected_genders, selected_products,
                   selected_channel, selected_payment, feedback_range>>
    /\ Rerun

SelectChannel ==
    /\ CanInteract
    /\ \E x \in unique(load_data, "Channel") :
          selected_channel' = Toggle(selected_channel, x)
    /\ UNCHANGED <<date_range, selected_genders, selected_products,
                   selected_locations, selected_payment, feedback_range>>
    /\ Rerun

SelectPayment ==
    /\ CanInteract
    /\ \E x \in unique(load_data, "PaymentType") :
          selected_payment' = Toggle(selected_payment, x)
    /\ UNCHANGED <<date_range, selected_genders, selected_products,
                   selected_locations, selected_channel, feedback_range>>
    /\ Rerun

SetFeedback ==
    /\ CanInteract
    /\ \E a, b \in DefaultFeedback(load_data)[1] .. DefaultFeedback(load_data)[2] :
          /\ a <= b
          /\ feedback_range' = <<a, b>>
    /\ UNCHANGED <<date_range, selected_genders, selected_products,
                   selected_locations, selected_channel, selected_payment>>
    /\ Rerun

\* The user presses "Rerun": no widget changes.
PressRerun ==
    /\ CanInteract
    /\ UNCHANGED widgets
    /\ Rerun

Next ==
    \/ FirstRun
    \/ SetDateRange
    \/ SelectGender
    \/ SelectProduct
    \/ SelectLocation
    \/ SelectChannel
    \/ SelectPayment
    \/ SetFeedback
    \/ PressRerun

Spec == Init /\ [][Next]_vars

(***************************************************************************)
(* Properties.                                                             *)
(***************************************************************************)
\* A row of filtered_df without the columns the script attached to it.
BaseRow(r) == [c \in BaseCols |-> r[c]]

ViewRows == [k \in DOMAIN filtered_df.rows |-> BaseRow(filtered_df.rows[k])]

\* Every widget holds the default the sidebar gave it.
AtDefaults ==
    /\ date_range = DefaultDateRange(df)
    /\ selected_genders = dropna_unique(df, "Gender")
    /\ selected_products = unique(df, "ProductVariant")
    /\ selected_locations = unique(df, "Location")
    /\ selected_channel = unique(df, "Channel")
    /\ selected_payment = unique(df, "PaymentType")
    /\ feedback_range = DefaultFeedback(df)

\* C1: with every filter at its default the filtered view is the whole
\* Dataset, rows with a null gender included, in the original order.
C1_DefaultsShowWholeDataset ==
    (loaded /\ AtDefaults) => ViewRows = df.rows

\* C2: an empty selection in any of the five categorical filters leaves no
\* record in the filtered view, whatever the other predicates are.
C2_EmptySelectionShowsNothing ==
    (loaded /\ {} \in {selected_genders, selected_products, selected_locations,
                       selected_channel, selected_payment})
        => filtered_df.rows = <<>>

\* A record that passes every predicate but the channel one.
PassesAllButChannel(r) ==
    /\ r.Date >= date_range[1] /\ r.Date <= date_range[2]
    /\ r.Gender \in selected_genders
    /\ r.ProductVariant \in selected_products
    /\ r.Location \in selected_locations
    /\ r.PaymentType \in selected_payment
    /\ r.FeedbackScore >= feedback_range[1] /\ r.FeedbackScore <= feedback_range[2]

\* C2's case: the channel selection was emptied while a record passes the
\* other six predicates, and the view is empty.
C2_Witness ==
    /\ loaded
    /\ interactions > 0
    /\ selected_channel = {}
    /\ \E i \in DOMAIN df.rows : PassesAllButChannel(df.rows[i])
    /\ filtered_df.rows = <<>>

\* The seven predicates of the filter, on the current widget values.
Satisfies(r) ==
    /\ date_range[1] <= r.Date /\ r.Date <= date_range[2]
    /\ r.Gender \in selected_genders
    /\ r.ProductVariant \in selected_products
    /\ r.Location \in selected_locations
    /\ r.Channel \in selected_channel
    /\ r.PaymentType \in selected_payment
    /\ feedback_range[1] <= r.FeedbackScore /\ r.FeedbackScore <= feedback_range[2]

\* C3: the filtered view is exactly the records of the Dataset that satisfy
\* all seven predicates (both range ends inclusive), in the Dataset's order.
C3_ViewIsTheSatisfyingSubsequence ==
    loaded =>
        /\ \A k \in 1 .. Len(filtered_df.index) - 1 :
              filtered_df.index[k] < filtered_df.index[k + 1]
        /\ Range(filtered_df.index) = {i \in DOMAIN df.rows : Satisfies(df.rows[i])}
        /\ \A k \in DOMAIN filtered_df.rows :
              BaseRow(filtered_df.rows[k]) = df.rows[filtered_df.index[k]]

\* C3's case: after an interaction the view keeps a record dated on the last
\* day of the range and drops another record.
C3_Witness ==
    /\ loaded
    /\ interactions > 0
    /\ \E k \in DOMAIN filtered_df.rows : filtered_df.rows[k].Date = date_range[2]
    /\ Len(filtered_df.rows) < Len(df.rows)
    /\ date_range # DefaultDateRange(df)

\* C4: units-by-month has the twelve rows Jan..Dec in order, and a month no
\* record of the view falls in has the value 0, not a missing value.
C4_MonthUnitsZeroForAbsentMonths ==
    loaded =>
        /\ Keys(month_units) = month_order
        /\ \A j \in DOMAIN month_units :
              (\A k \in DOMAIN filtered_df.rows :
                    strftime_b(filtered_df.rows[k].Date) # month_units[j].key)
                 => month_units[j].value = Num(0)

\* The bucket the age belongs to when '60+' has no upper end.
AgeBucket(age) ==
    IF age < 18 THEN "<18"
    ELSE IF age < 25 THEN "18-25"
    ELSE IF age < 35 THEN "26-35"
    ELSE IF age < 45 THEN "36-45"
    ELSE IF age < 60 THEN "46-60"
    ELSE "60+"

\* C5: every record of the view gets the bucket of its age, every age of 60
\* and above (100 and above included) being '60+', and the sales-by-age-group
\* values add up to the view's total sales.
C5_EveryAgeHasItsBucket ==
    (loaded /\ raised_at = 0) =>
        /\ \A k \in DOMAIN filtered_df.rows :
              filtered_df.rows[k].AgeGroup = AgeBucket(filtered_df.rows[k].Age)
        /\ Sum([j \in DOMAIN age_sales |-> age_sales[j].value]) = metrics.total_sales

\* The value a grouped sum holds for a key, 0 when the key has no group.
ValueAt(series, k) ==
    IF k \in Range(Keys(series))
    THEN series[CHOOSE n \in DOMAIN series : series[n].key = k].value
    ELSE 0

\* The widget values that differ from the defaults in one widget.
Criteria(dr, g, p, l, c, pay, fb) ==
    [dr |-> dr, g |-> g, p |-> p, l |-> l, c |-> c, pay |-> pay, fb |-> fb]

DefaultCriteria ==
    Criteria(DefaultDateRange(df), dropna_unique(df, "Gender"),
             unique(df, "ProductVariant"), unique(df, "Location"),
             unique(df, "Channel"), unique(df, "PaymentType"), DefaultFeedback(df))

OneWidgetCriteria ==
    LET w == DefaultCriteria
    IN {[w EXCEPT !.dr = <<a, b>>] : a, b \in unique(df, "Date")}
       \cup {[w EXCEPT !.fb = <<a, b>>] : a, b \in w.fb[1] .. w.fb[2]}
       \cup {[w EXCEPT !.g = x] : x \in SUBSET w.g}
       \cup {[w EXCEPT !.p = x] : x \in SUBSET w.p}
       \cup {[w EXCEPT !.l = x] : x \in SUBSET w.l}
       \cup {[w EXCEPT !.c = x] : x \in SUBSET w.c}
       \cup {[w EXCEPT !.pay = x] : x \in SUBSET w.pay}

ViewOf(w) == BoolIndex(df, FilterMask(df, w.dr, w.g, w.p, w.l, w.c, w.pay, w.fb))

\* The view of w and the current filtered view split the Dataset in two.
Partitions(w) ==
    /\ Range(ViewOf(w).index) \cap Range(filtered_df.index) = {}
    /\ Range(ViewOf(w).index) \cup Range(filtered_df.index) = DOMAIN df.rows

C8_EmptyViewRunCompletes ==
    (loaded /\ filtered_df.rows = <<>>) =>
        /\ raised_at = 0
        /\ metrics.total_sales = 0
        /\ metrics.total_units = 0
        /\ metrics.unique_customers = 0
        /\ metrics.avg_feedback.nan
        /\ monthly_sales = <<>>
        /\ sales_by_variant = <<>>
        /\ day_sales = <<>>
        /\ \A j \in DOMAIN month_units : month_units[j].value.nan
        /\ \A j \in DOMAIN age_sales : age_sales[j].value = 0
        /\ sales_by_channel_month = <<>>
        /\ sales_pay = <<>>

Pos(order, x) == CHOOSE i \in DOMAIN order : order[i] = x

InOrder(keys, order) ==
    \A i, j \in DOMAIN keys : i < j => Pos(order, keys[i]) < Pos(order, keys[j])

\* C9: the groups keyed by day name or month abbreviation come in calendar
\* order in sales by day of week, units by month, the day-by-product pivot
\* and, within each channel, channel-by-month sales.
C9_CalendarOrder ==
    loaded =>
        /\ InOrder(Keys(day_sales), day_order)
        /\ InOrder(Keys(month_units), month_order)
        /\ InOrder(pivot.index, day_order)
        /\ \A i, j \in DOMAIN sales_by_channel_month :
              (i < j /\ sales_by_channel_month[i].key[1] = sales_by_channel_month[j].key[1])
                 => Pos(month_order, sales_by_channel_month[i].key[2])
                        < Pos(month_order, sales_by_channel_month[j].key[2])

\* The values a column expression takes on the rows of the filtered view.
Seen(col) == Range(Column(filtered_df.rows, col))

\* C10: apart from units by month, a group is in a grouped aggregate exactly
\* when a record of the view maps to it; an age bucket without records is not
\* in sales by age group.
C10_GroupsAreThoseWithRecords ==
    (loaded /\ raised_at = 0) =>
        /\ Range(Keys(sales_by_variant)) = Seen("ProductVariant")
        /\ Range(Keys(day_sales)) = Seen("DayOfWeek")
        /\ Range(Keys(monthly_sales)) = {to_period_M(d) : d \in Seen("Date")}
        /\ Range(Keys(sales_by_channel_month))
              = {<<r.Channel, r.Month>> : r \in Range(filtered_df.rows)}
        /\ Range(Keys(sales_pay))
              = {<<r.Channel, r.PaymentType>> : r \in Range(filtered_df.rows)}
        /\ Range(Keys(age_sales)) = Seen("AgeGroup") \ {NA}

====
